---- MODULE Spec2Model ----
(***************************************************************************)
(* The prefetch scheduler of StreamingOutsideDTWebVid                      *)
(* (src/streaming/multimodal/webvid.py): one worker, its epochs, the       *)
(* background download thread of each epoch, the consumer, the shared      *)
(* shard-state table and the local side-asset files.                       *)
(*                                                                         *)
(* The base class (streaming.base.dataset: __iter__, _each_sample,         *)
(* __getitem__, _download_or_skip_shard, _PartitionState) and the transfer *)
(* primitive (streaming.base.storage.download) are not part of src/; they  *)
(* are modelled from spec.md sections 3, 4.3, 4.4, 4.5 and 5.              *)
(*                                                                         *)
(* The shard writer MDSWriter (src/streaming/base/format/mds/writer.py):   *)
(* construction, encode_sample and encode_joint_shard.  The column codec   *)
(* registry (is_mds_encoding, get_mds_encoded_size, mds_encode) and the    *)
(* buffering base class (JointWriter: write, finish, get_config) are not   *)
(* part of src/; they are modelled from spec.md sections 3, 4.1, 4.2, 6.   *)
(***************************************************************************)
EXTENDS Integers, Sequences, FiniteSets, TLC

\* ------------------------------------------------------------------ bounds
\* Slots of the worker's partition (state.total).
NumSlots == 2
\* Largest predownload window tried (predownload is None or 0..MaxWindow).
MaxWindow == 1
\* Number of epochs the worker starts (calls of __iter__).
MaxEpoch == 2
\* Number of write(sample) calls made on a writer.
MaxSamples == 2

\* --------------------------------------------------------------- constants
\* The padding sample id (webvid.py line 260).
Sentinel == -1

Epochs == 1..MaxEpoch
Slots == 1..NumSlots
\* Sample ids of the dataset: slot i holds sample i or padding.
Samples == 1..NumSlots

\* self.index.find_sample(sample_id)[0]: two samples per shard.
find_sample(s) == s \div 2

Shards == {find_sample(s) : s \in Samples}

\* predownload is Optional[int]: <<>> is None, <<w>> is the integer w.
PredownloadValues == {<<>>} \cup {<<w>> : w \in 0..MaxWindow}

VARIABLES
    sample_ids,      \* state.sample_ids, the same order every epoch (shuffle off)
    predownload,     \* self.predownload
    extra,           \* self.extra_local and self.extra_remote
    epoch,           \* number of epochs started so far; 0 after construction
    download_index,  \* state.download_index of each epoch's partition state
    yield_index,     \* state.yield_index of each epoch's partition state
    is_stopped,      \* state.is_stopped of each epoch's partition state
    pc,              \* position of each epoch's _download_thread; "freed" once
                     \* the thread has exited and the state is superseded
    shard_states,    \* shard id -> "absent" | "downloading" | "present"
    asset_local,     \* sample id -> os.path.exists(local) of its side asset
    cpc,             \* position of the consumer thread
    cidx,            \* sample id the consumer's __getitem__ is retrieving
    cmode,           \* "iter": retrieval of the yielded slot; "direct": ds[idx]
    lookups,         \* history: slots the scheduler called find_sample for
    adv_after_stop,  \* history: advances of download_index made after stop()
    failed           \* history: slots whose fetch failed in the scheduler

VARIABLES
    columns,          \* the columns argument: <<name, encoding>> in insertion order
    size_limit,       \* self.size_limit: <<>> is None, <<n>> a number of bytes
    wpc,              \* "none" before MDSWriter(...), then "open", "finished",
                      \* or "TypeError" when the constructor raised
    column_names,     \* self.column_names
    column_encodings, \* self.column_encodings
    column_sizes,     \* self.column_sizes: <<>> is None, <<n>> a number of bytes
    config_data,      \* self.config_data, the serialized metadata
    new_samples,      \* self.new_samples, the encoded samples of the open shard
    encoded,          \* <<>>, or <<the last encode_sample call: its sample
                      \* and what it returned or raised>>
    shard,            \* <<>>, or <<the last shard encode_joint_shard returned>>
    num_written       \* number of write(sample) calls so far

vars == <<sample_ids, predownload, extra, epoch, download_index, yield_index,
          is_stopped, pc, shard_states, asset_local, cpc, cidx, cmode,
          lookups, adv_after_stop, failed,
          columns, size_limit, wpc, column_names, column_encodings,
          column_sizes, config_data, new_samples, encoded, shard, num_written>>

writer == <<columns, size_limit, wpc, column_names, column_encodings,
            column_sizes, config_data, new_samples, encoded, shard, num_written>>

dataset == <<sample_ids, predownload, extra, epoch, download_index, yield_index,
             is_stopped, pc, shard_states, asset_local, cpc, cidx, cmode,
             lookups, adv_after_stop, failed>>

\* No MDSWriter has been constructed.
NoWriter ==
    /\ wpc = "none"
    /\ column_names = <<>>
    /\ column_encodings = <<>>
    /\ column_sizes = <<>>
    /\ config_data = <<>>
    /\ new_samples = <<>>
    /\ encoded = <<>>
    /\ shard = <<>>
    /\ num_written = 0

config == <<sample_ids, predownload, extra>>
history == <<lookups, adv_after_stop, failed>>
consumer == <<cpc, cidx, cmode>>

total == Len(sample_ids)

\* The slot the scheduler of epoch e is working on.
slot(e) == download_index[e] + 1

\* Threads that hold a shard transfer in flight.
SchedFetching(e, sh) ==
    /\ pc[e] \in {"shard_fetch", "getitem_fetch"}
    /\ find_sample(sample_ids[slot(e)]) = sh

ConsFetching(sh) == cpc = "shard_fetch" /\ find_sample(cidx) = sh

ShardInFlight(sh) ==
    Cardinality({e \in Epochs : SchedFetching(e, sh)})
        + (IF ConsFetching(sh) THEN 1 ELSE 0)

\* Threads that hold a side-asset transfer in flight.
AssetInFlight(s) ==
    Cardinality({e \in Epochs : pc[e] = "asset_fetch" /\ sample_ids[slot(e)] = s})
        + (IF cpc = "asset_fetch" /\ cidx = s THEN 1 ELSE 0)

Init ==
    /\ sample_ids \in {q \in [Slots -> {Sentinel} \cup Samples] :
                          \A i \in Slots : q[i] \in {Sentinel, i}}
    /\ predownload \in PredownloadValues
    /\ extra \in BOOLEAN
    /\ epoch = 0
    /\ download_index = [e \in Epochs |-> 0]
    /\ yield_index = [e \in Epochs |-> 0]
    /\ is_stopped = [e \in Epochs |-> FALSE]
    /\ pc = [e \in Epochs |-> "idle"]
    /\ shard_states = [sh \in Shards |-> "absent"]
    /\ asset_local = [s \in Samples |-> FALSE]
    /\ cpc = "loop"
    /\ cidx = Sentinel
    /\ cmode = "none"
    /\ lookups = [e \in Epochs |-> {}]
    /\ adv_after_stop = [e \in Epochs |-> 0]
    /\ failed = [e \in Epochs |-> {}]
    /\ columns = <<>>
    /\ size_limit = <<>>
    /\ NoWriter

\* ----------------------------------------------------- partition states
\* A partition state that __iter__ has superseded and whose thread has
\* exited is unreachable: it is dropped, here reset to the initial values.
Free(e) ==
    /\ pc' = [pc EXCEPT ![e] = "freed"]
    /\ download_index' = [download_index EXCEPT ![e] = 0]
    /\ yield_index' = [yield_index EXCEPT ![e] = 0]
    /\ lookups' = [lookups EXCEPT ![e] = {}]
    /\ adv_after_stop' = [adv_after_stop EXCEPT ![e] = 0]
    /\ failed' = [failed EXCEPT ![e] = {}]

\* _download_thread returns ("done") or dies of an exception ("crashed").
Exit(e, how) ==
    IF is_stopped[e]
      THEN Free(e)
      ELSE /\ pc' = [pc EXCEPT ![e] = how]
           /\ failed' = [failed EXCEPT
                            ![e] = IF how = "crashed" THEN @ \cup {download_index[e] + 1} ELSE @]
           /\ UNCHANGED <<download_index, yield_index, lookups, adv_after_stop>>

\* ------------------------------------------------------------ epoch start
\* __iter__: stop() the outgoing partition state, build a new one and start
\* its _download_thread.  Called by the consumer between two samples.
StartEpoch ==
    /\ epoch < MaxEpoch
    /\ cpc \in {"loop", "aborted"}
    /\ epoch' = epoch + 1
    /\ cpc' = "loop"
    /\ is_stopped' = [e \in Epochs |-> IF e = epoch THEN TRUE ELSE is_stopped[e]]
    /\ IF epoch >= 1 /\ pc[epoch] \in {"done", "crashed"}
         THEN /\ pc' = [pc EXCEPT ![epoch] = "freed", ![epoch + 1] = "top"]
              /\ download_index' = [download_index EXCEPT ![epoch] = 0]
              /\ yield_index' = [yield_index EXCEPT ![epoch] = 0]
              /\ lookups' = [lookups EXCEPT ![epoch] = {}]
              /\ adv_after_stop' = [adv_after_stop EXCEPT ![epoch] = 0]
              /\ failed' = [failed EXCEPT ![epoch] = {}]
         ELSE /\ pc' = [pc EXCEPT ![epoch + 1] = "top"]
              /\ UNCHANGED <<download_index, yield_index, history>>
    /\ UNCHANGED <<writer, config, shard_states, asset_local, cidx, cmode>>

\* --------------------------------------------------------- _download_thread
\* Mutant of Advance: the cursor of the worker's current partition state
\* (self._partition_state) is advanced instead of the thread's own state.
AdvanceCurrent(e) ==
    /\ download_index' = [download_index EXCEPT ![epoch] = @ + 1]
    /\ adv_after_stop' = [adv_after_stop EXCEPT
                             ![e] = IF is_stopped[e] THEN @ + 1 ELSE @]
    /\ pc' = [pc EXCEPT ![e] = "top"]
    /\ UNCHANGED <<yield_index, failed>>

\* Line 261 and line 277: state.download_index += 1; continue.
Advance(e) ==
    /\ download_index' = [download_index EXCEPT ![e] = @ + 1]
    /\ adv_after_stop' = [adv_after_stop EXCEPT
                             ![e] = IF is_stopped[e] THEN @ + 1 ELSE @]
    /\ pc' = [pc EXCEPT ![e] = "top"]
    /\ UNCHANGED <<yield_index, failed>>

\* The thread moves to another position of the same iteration.
Goto(e, where) ==
    /\ pc' = [pc EXCEPT ![e] = where]
    /\ UNCHANGED <<download_index, yield_index, adv_after_stop, failed>>

\* Mutant of WindowFull: the window is compared with the cursor itself, not
\* with its distance to yield_index.
WindowFullAbsolute(e) ==
    /\ predownload # <<>>
    /\ predownload[1] <= download_index[e]

\* Mutant of WindowFull: the comparison is strict, one sample too many.
WindowFullStrict(e) ==
    /\ predownload # <<>>
    /\ predownload[1] < download_index[e] - yield_index[e]

\* Lines 252-254: the predownload window is full.
WindowFull(e) ==
    /\ predownload # <<>>
    /\ predownload[1] <= download_index[e] - yield_index[e]

\* Mutant of StopObserved: the flag of the worker's current partition state
\* is read instead of the flag of the state the thread was started with.
StopObservedOnCurrent(e) == epoch >= 1 /\ is_stopped[epoch]

\* Mutant of StopObserved: the test of the flag is missing.
StopIgnored(e) == FALSE

\* Lines 243-244: the stop flag is observed at the top of the loop.
StopObserved(e) == is_stopped[e]

\* Lines 240-256: the checks at the top of the loop.
download_thread_top(e) ==
    /\ pc[e] = "top"
    /\ IF StopObserved(e) \/ download_index[e] = total
         THEN Exit(e, "done")
         ELSE IF WindowFull(e)
                THEN Goto(e, "top") /\ UNCHANGED lookups    \* sleep(TICK)
                ELSE Goto(e, "slot") /\ UNCHANGED lookups
    /\ UNCHANGED <<writer, config, epoch, is_stopped, shard_states, asset_local, consumer>>

\* The transfer of a shard ends: present on success; on failure the marker
\* is cleared and the error propagates out of the caller.
ShardTransferEnds(sh, ok) ==
    shard_states' = [shard_states EXCEPT ![sh] = IF ok THEN "present" ELSE "absent"]

\* An uncaught exception leaves _download_thread: the thread is gone and the
\* cursor stays on the slot.
Raise(e) == Exit(e, "crashed")

\* Mutant of PredownloadExtra: the side asset is left to __getitem__.
PredownloadExtraSkipped(e) == Advance(e)

\* Lines 270-277, the shard being local: with both roots configured and the
\* local file missing, start download(remote, local, timeout); otherwise
\* advance the cursor.
PredownloadExtra(e) ==
    IF extra /\ ~asset_local[sample_ids[slot(e)]]
      THEN Goto(e, "asset_fetch")
      ELSE Advance(e)

\* Mutant of BaseGetItem: line 269 is missing, nothing waits for the shard.
BaseGetItemNoWait(e, sh) == PredownloadExtra(e)

\* Line 269: obj = super().__getitem__(sample_id), the base retrieval, which
\* returns only once the shard is local: otherwise the thread stays on line
\* 269, to fetch the shard itself or to wait for the thread downloading it.
BaseGetItem(e, sh) ==
    IF shard_states[sh] = "present"
      THEN PredownloadExtra(e)
      ELSE Goto(e, "getitem")

\* Mutant of download_thread_slot: the shard is fetched with no look at the
\* shard-state table.
download_thread_slot_unguarded(e) ==
    /\ pc[e] = "slot"
    /\ LET sample_id == sample_ids[slot(e)]
           sh == find_sample(sample_id)
       IN IF sample_id = Sentinel
            THEN /\ Advance(e)
                 /\ UNCHANGED <<shard_states, lookups>>
            ELSE /\ lookups' = [lookups EXCEPT ![e] = @ \cup {slot(e)}]
                 /\ shard_states' = [shard_states EXCEPT ![sh] = "downloading"]
                 /\ Goto(e, "shard_fetch")
    /\ UNCHANGED <<writer, config, epoch, is_stopped, asset_local, consumer>>

\* Mutant of download_thread_slot: the index lookup of line 265 comes before
\* the padding test of line 260.
download_thread_slot_lookup_first(e) ==
    /\ pc[e] = "slot"
    /\ LET sample_id == sample_ids[slot(e)]
           sh == find_sample(sample_id)
       IN /\ lookups' = [lookups EXCEPT ![e] = @ \cup {slot(e)}]
          /\ IF sample_id = Sentinel
               THEN /\ Advance(e)
                    /\ UNCHANGED shard_states
               ELSE IF shard_states[sh] = "absent"
                      THEN /\ shard_states' = [shard_states EXCEPT ![sh] = "downloading"]
                           /\ Goto(e, "shard_fetch")
                      ELSE /\ BaseGetItem(e, sh)
                           /\ UNCHANGED shard_states
    /\ UNCHANGED <<writer, config, epoch, is_stopped, asset_local, consumer>>

\* Lines 258-277 up to the first transfer: skip a padding slot, or look the
\* sample up and call _download_or_skip_shard(lock, shard_states, shard_id,
\* False): under the lock an absent shard is marked downloading and fetched
\* by this thread; a shard another thread is downloading is not waited for.
download_thread_slot(e) ==
    /\ pc[e] = "slot"
    /\ LET sample_id == sample_ids[slot(e)]
           sh == find_sample(sample_id)
       IN IF sample_id = Sentinel
            THEN /\ Advance(e)
                 /\ UNCHANGED <<shard_states, lookups>>
            ELSE /\ lookups' = [lookups EXCEPT ![e] = @ \cup {slot(e)}]
                 /\ IF shard_states[sh] = "absent"
                      THEN /\ shard_states' = [shard_states EXCEPT ![sh] = "downloading"]
                           /\ Goto(e, "shard_fetch")
                      ELSE /\ BaseGetItem(e, sh)
                           /\ UNCHANGED shard_states
    /\ UNCHANGED <<writer, config, epoch, is_stopped, asset_local, consumer>>

\* Line 266, the transfer started by _download_or_skip_shard ends; lines
\* 269-277 follow.
download_thread_shard_fetched(e) ==
    /\ pc[e] = "shard_fetch"
    /\ \E ok \in BOOLEAN :
         /\ ShardTransferEnds(find_sample(sample_ids[slot(e)]), ok)
         /\ IF ok
              THEN PredownloadExtra(e) /\ UNCHANGED lookups
              ELSE Raise(e)
    /\ UNCHANGED <<writer, config, epoch, is_stopped, asset_local, consumer>>

\* Line 269, the base retrieval when the shard was not local: it fetches an
\* absent shard itself and waits while another thread is downloading it.
download_thread_getitem(e) ==
    /\ pc[e] = "getitem"
    /\ LET sh == find_sample(sample_ids[slot(e)])
       IN CASE shard_states[sh] = "present" ->
                 /\ PredownloadExtra(e)
                 /\ UNCHANGED shard_states
            [] shard_states[sh] = "absent" ->
                 /\ shard_states' = [shard_states EXCEPT ![sh] = "downloading"]
                 /\ Goto(e, "getitem_fetch")
            [] OTHER ->
                 /\ Goto(e, "getitem")               \* sleep(TICK)
                 /\ UNCHANGED shard_states
    /\ UNCHANGED <<writer, config, epoch, is_stopped, asset_local, consumer, lookups>>

\* Line 269, the transfer started by the base retrieval ends.
download_thread_getitem_fetched(e) ==
    /\ pc[e] = "getitem_fetch"
    /\ \E ok \in BOOLEAN :
         /\ ShardTransferEnds(find_sample(sample_ids[slot(e)]), ok)
         /\ IF ok
              THEN PredownloadExtra(e) /\ UNCHANGED lookups
              ELSE Raise(e)
    /\ UNCHANGED <<writer, config, epoch, is_stopped, asset_local, consumer>>

\* Mutant of download_thread_asset_fetched: the error of download() is
\* swallowed and the cursor advances all the same.
download_thread_asset_fetched_swallow(e) ==
    /\ pc[e] = "asset_fetch"
    /\ \E ok \in BOOLEAN :
         /\ asset_local' = [asset_local EXCEPT ![sample_ids[slot(e)]] = ok \/ @]
         /\ Advance(e)
         /\ UNCHANGED lookups
    /\ UNCHANGED <<writer, config, epoch, is_stopped, shard_states, consumer>>

\* Lines 275-277: download() returns and the cursor advances, or it raises.
download_thread_asset_fetched(e) ==
    /\ pc[e] = "asset_fetch"
    /\ \E ok \in BOOLEAN :
         IF ok
           THEN /\ asset_local' = [asset_local EXCEPT ![sample_ids[slot(e)]] = TRUE]
                /\ Advance(e)
                /\ UNCHANGED lookups
           ELSE /\ Raise(e)
                /\ UNCHANGED asset_local
    /\ UNCHANGED <<writer, config, epoch, is_stopped, shard_states, consumer>>

download_thread(e) ==
    \/ download_thread_top(e)
    \/ download_thread_slot(e)
    \/ download_thread_shard_fetched(e)
    \/ download_thread_getitem(e)
    \/ download_thread_getitem_fetched(e)
    \/ download_thread_asset_fetched(e)

\* ---------------------------------------------------------------- consumer
\* __getitem__ returns obj to its caller; the iteration then steps its
\* cursor forward.
Return(mode) ==
    /\ cpc' = "loop"
    /\ cidx' = Sentinel
    /\ cmode' = "none"
    /\ yield_index' = IF mode = "iter"
                        THEN [yield_index EXCEPT ![epoch] = @ + 1]
                        ELSE yield_index

\* __getitem__ raises: a direct call returns to its caller, an iteration ends.
ConsumerRaise ==
    /\ cpc' = IF cmode = "iter" THEN "aborted" ELSE "loop"
    /\ cidx' = Sentinel
    /\ cmode' = "none"
    /\ UNCHANGED yield_index

\* Lines 211-223, the shard being local: with both roots configured and the
\* local file missing, start download(remote, local, timeout); otherwise
\* read the file and return.
AttachExtra(idx, mode) ==
    IF extra /\ ~asset_local[idx]
      THEN /\ cpc' = "asset_fetch"
           /\ cidx' = idx
           /\ cmode' = mode
           /\ UNCHANGED yield_index
      ELSE Return(mode)

\* Lines 200-223 up to the first transfer.  Line 209 is the base retrieval:
\* it returns once the shard is local, fetching an absent shard itself and
\* waiting while another thread is downloading it.
GetItem(idx, mode) ==
    LET sh == find_sample(idx)
    IN CASE shard_states[sh] = "present" ->
              /\ AttachExtra(idx, mode)
              /\ UNCHANGED shard_states
         [] shard_states[sh] = "absent" ->
              /\ shard_states' = [shard_states EXCEPT ![sh] = "downloading"]
              /\ cpc' = "shard_fetch"
              /\ cidx' = idx
              /\ cmode' = mode
              /\ UNCHANGED yield_index
         [] OTHER ->
              /\ cpc' = "getitem"                    \* sleep(TICK)
              /\ cidx' = idx
              /\ cmode' = mode
              /\ UNCHANGED <<shard_states, yield_index>>

\* Mutant of each_sample: the loop does not wait for the download cursor.
each_sample_no_wait ==
    /\ cpc = "loop"
    /\ epoch >= 1
    /\ ~is_stopped[epoch]
    /\ yield_index[epoch] < total
    /\ LET sample_id == sample_ids[yield_index[epoch] + 1]
       IN IF sample_id = Sentinel
            THEN /\ yield_index' = [yield_index EXCEPT ![epoch] = @ + 1]
                 /\ UNCHANGED <<consumer, shard_states>>
            ELSE GetItem(sample_id, "iter")
    /\ UNCHANGED <<writer, config, epoch, download_index, is_stopped, pc,
                   asset_local, history>>

\* The consumer's loop over the current partition state: a slot is yielded
\* only once the download cursor has passed it; a padding slot is stepped
\* over, a real one is retrieved with __getitem__ before the cursor moves.
each_sample ==
    /\ cpc = "loop"
    /\ epoch >= 1
    /\ ~is_stopped[epoch]
    /\ yield_index[epoch] < total
    /\ yield_index[epoch] < download_index[epoch]
    /\ LET sample_id == sample_ids[yield_index[epoch] + 1]
       IN IF sample_id = Sentinel
            THEN /\ yield_index' = [yield_index EXCEPT ![epoch] = @ + 1]
                 /\ UNCHANGED <<consumer, shard_states>>
            ELSE GetItem(sample_id, "iter")
    /\ UNCHANGED <<writer, config, epoch, download_index, is_stopped, pc,
                   asset_local, history>>

\* ds[idx]: a retrieval of any sample outside the iteration.
direct_access ==
    /\ cpc = "loop"
    /\ \E idx \in Samples : GetItem(idx, "direct")
    /\ UNCHANGED <<writer, config, epoch, download_index, is_stopped, pc,
                   asset_local, history>>

\* Line 209, the base retrieval waiting for the shard.
getitem_wait ==
    /\ cpc = "getitem"
    /\ GetItem(cidx, cmode)
    /\ UNCHANGED <<writer, config, epoch, download_index, is_stopped, pc,
                   asset_local, history>>

\* Line 209, the transfer started by the base retrieval ends.
getitem_shard_fetched ==
    /\ cpc = "shard_fetch"
    /\ \E ok \in BOOLEAN :
         /\ ShardTransferEnds(find_sample(cidx), ok)
         /\ IF ok
              THEN AttachExtra(cidx, cmode)
              ELSE ConsumerRaise
    /\ UNCHANGED <<writer, config, epoch, download_index, is_stopped, pc,
                   asset_local, history>>

\* Lines 216-223: download() returns and the file is read, or it raises.
getitem_asset_fetched ==
    /\ cpc = "asset_fetch"
    /\ \E ok \in BOOLEAN :
         IF ok
           THEN /\ asset_local' = [asset_local EXCEPT ![cidx] = TRUE]
                /\ Return(cmode)
           ELSE /\ ConsumerRaise
                /\ UNCHANGED asset_local
    /\ UNCHANGED <<writer, config, epoch, download_index, is_stopped, pc,
                   shard_states, history>>

Next ==
    \/ StartEpoch
    \/ \E e \in Epochs : download_thread(e)
    \/ each_sample
    \/ direct_access
    \/ getitem_wait
    \/ getitem_shard_fetched
    \/ getitem_asset_fetched

Spec == Init /\ [][Next]_vars

\* ------------------------------------------------- one undisturbed epoch
\* The iteration of one epoch in which stop is never set and every transfer
\* succeeds: __iter__ is called once, the consumer only iterates, and no
\* _download_thread step ends in an exception.
iter_once == epoch = 0 /\ StartEpoch

download_thread_shard_fetched_ok(e) ==
    download_thread_shard_fetched(e) /\ pc'[e] # "crashed"

download_thread_asset_fetched_ok(e) ==
    download_thread_asset_fetched(e) /\ pc'[e] # "crashed"

download_thread_ok(e) ==
    \/ download_thread_top(e)
    \/ download_thread_slot(e)
    \/ download_thread_shard_fetched_ok(e)
    \/ download_thread_asset_fetched_ok(e)

EpochNext ==
    \/ iter_once
    \/ \E e \in Epochs : download_thread_ok(e)
    \/ each_sample

\* Fair scheduling: a thread that can take a step eventually takes one.
EpochFairSpec ==
    /\ Init
    /\ [][EpochNext]_vars
    /\ WF_vars(iter_once)
    /\ WF_vars(\E e \in Epochs : download_thread_ok(e))
    /\ WF_vars(each_sample)
\* ============================================================== MDSWriter
\* ------------------------------------------------------------ byte counts
\* A byte count or a file position, kept as hi * 2^16 + lo so that values of
\* 2^32 and more are exact.
Half == 2^16

Big(n) == [hi |-> n \div Half, lo |-> n % Half]

BigAdd(x, y) ==
    LET lo == x.lo + y.lo
    IN [hi |-> x.hi + y.hi + (lo \div Half), lo |-> lo % Half]

BigLess(x, y) == x.hi < y.hi \/ (x.hi = y.hi /\ x.lo < y.lo)

RECURSIVE BigSum(_)
BigSum(s) == IF s = <<>> THEN Big(0) ELSE BigAdd(Head(s), BigSum(Tail(s)))

RECURSIVE Sum(_)
Sum(s) == IF s = <<>> THEN 0 ELSE Head(s) + Sum(Tail(s))

\* A value stored in an array of dtype np.uint32: modulo 2^32.
Uint32(x) == [hi |-> x.hi % Half, lo |-> x.lo]

\* ------------------------------------------------- column codec registry
\* The encodings a schema may name; "foo" is not registered.
SchemaEncodings == {"uint32", "str", "foo"}

is_mds_encoding(encoding) == encoding \in {"uint32", "str"}

\* The declared size of an encoding: <<n>> is n bytes, <<>> is None.
get_mds_encoded_size(encoding) == IF encoding = "uint32" THEN <<4>> ELSE <<>>

\* A column value is kept as the number of bytes its codec turns it into; a
\* codec registered with a fixed size may still return another length.
DatumLens == {Big(2), Big(4), [hi |-> 2^15, lo |-> 0]}

\* mds_encode(encoding, value): the datum, of which the length is kept.
mds_encode(encoding, value) == [encoding |-> encoding, len |-> value]

\* ------------------------------------------------------------ the schema
\* Column names and their order under sorted().
ColumnNames == <<"a", "b">>

\* Every columns mapping over ColumnNames, as <<name, encoding>> pairs in
\* insertion order: one or two distinct names.
Schemas ==
    {q \in UNION {[1..n -> {<<ColumnNames[i], enc>> :
                               i \in 1..Len(ColumnNames), enc \in SchemaEncodings}] :
                  n \in 1..Len(ColumnNames)} :
        \A i, j \in DOMAIN q : i # j => q[i][1] # q[j][1]}

\* size_limit: None, or the default 1 << 26.
SizeLimits == {<<>>, <<2^26>>}

\* columns[name]
Lookup(cols, name) == cols[CHOOSE i \in DOMAIN cols : cols[i][1] = name][2]

\* sorted(columns): the keys in ascending order.
sorted(cols) ==
    SelectSeq(ColumnNames, LAMBDA name : \E i \in DOMAIN cols : cols[i][1] = name)

\* ---------------------------------------------------------- the metadata
\* len(s) of the strings that occur in the metadata.
StrLen(s) ==
    CASE s \in {"a", "b"} -> 1
      [] s \in {"str", "foo", "mds"} -> 3
      [] s \in {"uint32", "format", "hashes"} -> 6
      [] s = "size_limit" -> 10
      [] s = "compression" -> 11
      [] s \in {"column_names", "column_sizes"} -> 12
      [] s = "column_encodings" -> 16

RECURSIVE Digits(_)
Digits(n) == IF n < 10 THEN 1 ELSE 1 + Digits(n \div 10)

\* Length of the JSON text of an optional integer: null, or its digits.
JsonOpt(x) == IF x = <<>> THEN 4 ELSE Digits(x[1])

\* Length of a JSON list or object whose items have the given lengths:
\* the brackets, the items and a ", " between two items.
JsonList(lens) ==
    2 + Sum(lens) + (IF Len(lens) > 0 THEN 2 * (Len(lens) - 1) ELSE 0)

JsonValueLen(key, v) ==
    CASE key \in {"column_names", "column_encodings", "hashes"} ->
            JsonList([i \in DOMAIN v |-> StrLen(v[i]) + 2])
      [] key = "column_sizes" -> JsonList([i \in DOMAIN v |-> JsonOpt(v[i])])
      [] key = "format" -> StrLen(v) + 2
      [] key \in {"compression", "size_limit"} -> JsonOpt(v)

\* The keys of the metadata object in ascending order.
JsonKeys ==
    <<"column_encodings", "column_names", "column_sizes", "compression",
      "format", "hashes", "size_limit">>

\* json.dumps(obj, sort_keys=True).encode('utf-8'): the <<key, value>> items
\* in ascending key order.
json_dumps(obj) == [i \in DOMAIN JsonKeys |-> <<JsonKeys[i], obj[JsonKeys[i]]>>]

\* len(text) of a serialized metadata object: "key": value items in braces.
TextLen(text) ==
    JsonList([i \in DOMAIN text |->
                 StrLen(text[i][1]) + 2 + 2 + JsonValueLen(text[i][1], text[i][2])])

\* Lines 105-117: the base configuration (no compression, no hashes)
\* updated with the three column lists.
get_config(names, encodings, sizes, limit) ==
    [format |-> "mds", compression |-> <<>>, hashes |-> <<>>,
     size_limit |-> limit, column_names |-> names,
     column_encodings |-> encodings, column_sizes |-> sizes]

\* Line 40.
extra_bytes_per_sample == 4

\* Mutant of extra_bytes_per_shard: the reserved 4 bytes are left out.
extra_bytes_per_shard_short(cfg) == 4 + TextLen(cfg)

\* Line 75: self.extra_bytes_per_shard = 4 + 4 + len(self.config_data).
extra_bytes_per_shard(cfg) == 4 + 4 + TextLen(cfg)

\* ---------------------------------------------------------- construction
\* Mutant of column_order: the columns are walked in insertion order.
column_order_inserted(cols) == [i \in DOMAIN cols |-> cols[i][1]]

\* Line 62: for name in sorted(columns).
column_order(cols) == sorted(cols)

\* Mutant of rejected: the test of lines 64-66 is missing.
rejected_never(encodings) == FALSE

\* Lines 64-66: some encoding is not registered, TypeError is raised.
rejected(encodings) == \E i \in DOMAIN encodings : ~is_mds_encoding(encodings[i])

\* Lines 42-76: MDSWriter(columns, ..., size_limit).
MDSWriter_init ==
    /\ wpc = "none"
    /\ LET names == column_order(columns)
           encodings == [i \in DOMAIN names |-> Lookup(columns, names[i])]
           sizes == [i \in DOMAIN names |-> get_mds_encoded_size(encodings[i])]
       IN IF rejected(encodings)
            THEN /\ wpc' = "TypeError"
                 /\ UNCHANGED <<column_names, column_encodings, column_sizes,
                                config_data>>
            ELSE /\ wpc' = "open"
                 /\ column_names' = names
                 /\ column_encodings' = encodings
                 /\ column_sizes' = sizes
                 /\ config_data' = json_dumps(get_config(names, encodings, sizes,
                                                         size_limit))
    /\ new_samples' = <<>>                              \* line 76, _reset_cache()
    /\ UNCHANGED <<dataset, columns, size_limit, encoded, shard, num_written>>

\* ---------------------------------------------------------- encode_sample
\* Mutant of sizes_append: a size is recorded for every column.
sizes_append_always(size, datum, sizes) == Append(sizes, datum.len)

\* Lines 93-95: the length of a variable-size datum joins the size table.
sizes_append(size, datum, sizes) ==
    IF size = <<>> THEN Append(sizes, datum.len) ELSE sizes

\* Mutant of size_mismatch: the test of lines 97-99 is missing.
size_mismatch_ignored(size, datum) == FALSE

\* Lines 96-99: a fixed-size column whose datum has another length.
size_mismatch(size, datum) == size # <<>> /\ Big(size[1]) # datum.len

\* Lines 89-100: the loop over the columns from column i on; KeyError
\* leaves it at the first mismatch.
RECURSIVE encode_columns(_, _, _, _)
encode_columns(i, sample, sizes, data) ==
    IF i > Len(column_names)
      THEN [raised |-> "", sizes |-> sizes, data |-> data]
      ELSE LET size == column_sizes[i]
               datum == mds_encode(column_encodings[i], sample[column_names[i]])
           IN IF size_mismatch(size, datum)
                THEN [raised |-> "KeyError"]
                ELSE encode_columns(i + 1, sample, sizes_append(size, datum, sizes),
                                    Append(data, datum))

\* Lines 78-103: head is np.array(sizes, np.uint32), 4 bytes an entry; body
\* is the data joined in order.
encode_sample(sample) ==
    LET r == encode_columns(1, sample, <<>>, <<>>)
    IN IF r.raised # ""
         THEN [raised |-> r.raised]
         ELSE [raised |-> "",
               head |-> [i \in DOMAIN r.sizes |-> Uint32(r.sizes[i])],
               body |-> r.data]

\* len(s) of an encoded sample.
SampleLen(s) ==
    BigAdd(Big(4 * Len(s.head)), BigSum([i \in DOMAIN s.body |-> s.body[i].len]))

\* ------------------------------------------------------ encode_joint_shard
\* Lines 125-130.  The cumulative sum is cast to uint32 (line 127) and the
\* base is added in place to the uint32 array (line 128).
encode_joint_shard(samples, cfg) ==
    LET n == Len(samples)
        sizes == [k \in 1..n |-> SampleLen(samples[k])]
        cumsum == [k \in 1..(n + 1) |-> Uint32(BigSum(SubSeq(sizes, 1, k - 1)))]
        base == Big(4 + 4 * (n + 1) + TextLen(cfg))
    IN [num_samples |-> n,
        offsets |-> [k \in 1..(n + 1) |-> Uint32(BigAdd(cumsum[k], base))],
        config_data |-> cfg,
        sample_data |-> samples]

\* len(b) of the bytes encode_joint_shard returned.
FileLen(sh) ==
    BigAdd(Big(4 + 4 * Len(sh.offsets) + TextLen(sh.config_data)),
           BigSum([k \in DOMAIN sh.sample_data |-> SampleLen(sh.sample_data[k])]))

\* ------------------------------------------------------------- buffering
\* The samples a writer of the schema can be given: a value for each column.
SamplesOf(names) == [{names[i] : i \in DOMAIN names} -> DatumLens]

\* self.new_shard_size: the per-shard overhead and, for each buffered
\* sample, its length and the per-sample overhead.
new_shard_size ==
    BigAdd(Big(extra_bytes_per_shard(config_data)),
           BigSum([k \in DOMAIN new_samples |->
                      BigAdd(SampleLen(new_samples[k]), Big(extra_bytes_per_sample))]))

\* The open shard is serialized and handed to the uploader.
flush(samples) == shard' = <<encode_joint_shard(samples, config_data)>>

\* write(sample): encode the sample; when it would take the open shard over
\* size_limit, flush the shard first; then buffer the sample.  An exception
\* of encode_sample leaves the buffer as it was.
write ==
    /\ wpc = "open"
    /\ num_written < MaxSamples
    /\ \E sample \in SamplesOf(column_names) :
         LET new_sample == encode_sample(sample)
             new_sample_size == BigAdd(SampleLen(new_sample), Big(extra_bytes_per_sample))
         IN /\ encoded' = <<[sample |-> sample, out |-> new_sample]>>
            /\ IF new_sample.raised # ""
                 THEN UNCHANGED <<new_samples, shard>>
                 ELSE IF /\ size_limit # <<>>
                         /\ BigLess(Big(size_limit[1]), BigAdd(new_shard_size, new_sample_size))
                        THEN /\ flush(new_samples)
                             /\ new_samples' = <<new_sample>>
                        ELSE /\ new_samples' = Append(new_samples, new_sample)
                             /\ UNCHANGED shard
    /\ num_written' = num_written + 1
    /\ UNCHANGED <<dataset, columns, size_limit, wpc, column_names,
                   column_encodings, column_sizes, config_data>>

\* finish(): the open shard is flushed and the writer is closed.
finish ==
    /\ wpc = "open"
    /\ flush(new_samples)
    /\ new_samples' = <<>>
    /\ wpc' = "finished"
    /\ UNCHANGED <<dataset, columns, size_limit, column_names, column_encodings,
                   column_sizes, config_data, encoded, num_written>>

\* The dataset side is not in use while shards are written.
NoDataset ==
    /\ sample_ids = [i \in Slots |-> Sentinel]
    /\ predownload = <<>>
    /\ extra = FALSE
    /\ epoch = 0
    /\ download_index = [e \in Epochs |-> 0]
    /\ yield_index = [e \in Epochs |-> 0]
    /\ is_stopped = [e \in Epochs |-> FALSE]
    /\ pc = [e \in Epochs |-> "idle"]
    /\ shard_states = [sh \in Shards |-> "absent"]
    /\ asset_local = [s \in Samples |-> FALSE]
    /\ cpc = "loop"
    /\ cidx = Sentinel
    /\ cmode = "none"
    /\ lookups = [e \in Epochs |-> {}]
    /\ adv_after_stop = [e \in Epochs |-> 0]
    /\ failed = [e \in Epochs |-> {}]

WriterInit ==
    /\ NoDataset
    /\ columns \in Schemas
    /\ size_limit \in SizeLimits
    /\ NoWriter

WriterNext ==
    \/ MDSWriter_init
    \/ write
    \/ finish

WriterSpec == WriterInit /\ [][WriterNext]_vars

\* ------------------------------------------------------------------ claims
\* Positions of a _download_thread that has not exited.
Running == {"top", "slot", "shard_fetch", "getitem", "getitem_fetch", "asset_fetch"}
\* Positions inside a loop iteration, past the checks at its top.
Busy == Running \ {"top"}

\* C1.  Window bound: with a predownload window w configured, every
\* partition state has download_index - yield_index <= w in every reachable
\* state, whatever the interleaving of the scheduler and the consumer.
WindowBound ==
    \A e \in Epochs :
        predownload # <<>> => download_index[e] - yield_index[e] <= predownload[1]

\* C1 witness: the scheduler of a live epoch idles at the loop top on a full
\* window of 1, with slots left to download.
WindowBoundWitness ==
    \E e \in Epochs :
        /\ predownload = <<1>>
        /\ pc[e] = "top" /\ ~is_stopped[e]
        /\ download_index[e] = 1 /\ yield_index[e] = 0
        /\ download_index[e] < total

\* C2.  The scheduler is never behind the consumer: download_index >=
\* yield_index in every partition state, for every window setting.
NeverBehind ==
    \A e \in Epochs : download_index[e] >= yield_index[e]

\* C2 witness: the consumer has yielded a slot and caught up with the
\* download cursor while slots remain.
NeverBehindWitness ==
    \E e \in Epochs :
        /\ yield_index[e] >= 1
        /\ yield_index[e] = download_index[e]
        /\ download_index[e] < total
        /\ pc[e] \in Running

\* C3.  Cooperative cancellation: after stop() a scheduler advances
\* download_index at most once more, and from the loop top it only exits: it
\* begins no further iteration, hence starts no fetch in a later one.  Until
\* it has exited it is never stuck: it has a step to take, or it waits on
\* line 269 for a shard transfer that another thread holds in flight.
CooperativeCancellation ==
    /\ [](\A e \in Epochs :
            /\ adv_after_stop[e] <= 1
            /\ (is_stopped[e] /\ pc[e] \in Running) =>
                 \/ ENABLED <<download_thread(e)>>_vars
                 \/ /\ pc[e] = "getitem"
                    /\ ShardInFlight(find_sample(sample_ids[slot(e)])) = 1)
    /\ [][\A e \in Epochs :
            (is_stopped[e] /\ pc[e] = "top") => pc'[e] \in {"top", "freed"}]_vars

\* C3 witness: a stopped scheduler has finished the iteration that was in
\* progress, advancing once after stop(), and is back at the loop top.
CooperativeCancellationWitness ==
    \E e \in Epochs :
        is_stopped[e] /\ adv_after_stop[e] = 1 /\ pc[e] = "top"

\* The real slots a scheduler has advanced past.
RealBelow(e) ==
    {k \in Slots : k <= download_index[e] /\ sample_ids[k] # Sentinel}

\* C4.  Shard download deduplication: at most one fetch of a shard is in
\* flight, it is in flight exactly while the shard is marked downloading, and
\* a shard that is present stays present: it is never fetched again.
ShardDedup ==
    /\ [](\A sh \in Shards :
            /\ ShardInFlight(sh) <= 1
            /\ (ShardInFlight(sh) = 1) <=> (shard_states[sh] = "downloading"))
    /\ [][\A sh \in Shards :
            shard_states[sh] = "present" => shard_states'[sh] = "present"]_vars

\* C4 witness: two schedulers need the same shard; the stopped one of the
\* superseded epoch holds the transfer, the new one waits for it.
ShardDedupWitness ==
    \E e1, e2 \in Epochs :
        /\ e1 < e2
        /\ pc[e1] = "shard_fetch" /\ pc[e2] = "getitem"
        /\ find_sample(sample_ids[slot(e1)]) = find_sample(sample_ids[slot(e2)])

\* C5 (as claimed).  Side-asset idempotence: at most one transfer of a side
\* asset is in flight and an asset that is local has no transfer in flight,
\* so it is transferred at most once.
AssetFetchedOnce ==
    \A s \in Samples :
        /\ AssetInFlight(s) <= 1
        /\ asset_local[s] => AssetInFlight(s) = 0

\* C6 (as claimed).  The slots for which I/O was issued are exactly the real
\* slots below download_index.
SentinelSkipExact ==
    \A e \in Epochs : lookups[e] = RealBelow(e)

\* C6 (amended).  Sentinel skip: no lookup and no fetch is ever issued for a
\* padding slot; the step over a padding slot advances download_index by
\* exactly one and touches neither the shard table nor the local files; the
\* slots with I/O issued are the real slots below download_index and, while
\* its iteration is in progress or after it failed, the real slot at
\* download_index.
SentinelSkip ==
    /\ [](\A e \in Epochs :
            /\ \A k \in lookups[e] : sample_ids[k] # Sentinel
            /\ RealBelow(e) \subseteq lookups[e]
            /\ lookups[e] \subseteq RealBelow(e) \cup {slot(e)}
            /\ pc[e] \in Busy \ {"slot"} => sample_ids[slot(e)] # Sentinel)
    /\ [][\A e \in Epochs :
            (pc[e] = "slot" /\ sample_ids[slot(e)] = Sentinel /\ pc'[e] # "slot")
                => /\ pc'[e] = "top"
                   /\ download_index'[e] = download_index[e] + 1
                   /\ lookups'[e] = lookups[e]
                   /\ shard_states' = shard_states
                   /\ asset_local' = asset_local]_vars

\* C6 witness: padding and real slots interleaved; the scheduler has stepped
\* over the padding slot 1 and fetched for the real slot 2 only.
SentinelSkipWitness ==
    \E e \in Epochs :
        /\ sample_ids[1] = Sentinel /\ sample_ids[2] # Sentinel
        /\ download_index[e] = 2
        /\ lookups[e] = {2}

\* C7.  In-order, non-skipping prefetch: download_index moves by exactly one
\* at a time, the slot worked on is always the one at download_index, and a
\* real slot is passed only with its shard present locally.
InOrderPrefetch ==
    /\ [](\A e \in Epochs : \A k \in RealBelow(e) :
            shard_states[find_sample(sample_ids[k])] = "present")
    /\ [][\/ UNCHANGED <<download_index, lookups>>
          \/ \A e \in Epochs :
               pc'[e] # "freed" =>
                   /\ download_index'[e] \in {download_index[e], download_index[e] + 1}
                   /\ lookups'[e] \ lookups[e] \subseteq {download_index[e] + 1}]_vars

\* C7 witness: the scheduler is blocked on line 269 while the consumer holds
\* the transfer of the shard of its slot.
InOrderPrefetchWitness ==
    \E e \in Epochs :
        /\ pc[e] = "getitem"
        /\ cpc = "shard_fetch"
        /\ find_sample(cidx) = find_sample(sample_ids[slot(e)])
        /\ shard_states[find_sample(cidx)] = "downloading"

\* C8 (as claimed).  At most one epoch's scheduler is inside a loop
\* iteration at any time.
SingleBusyEpoch ==
    Cardinality({e \in Epochs : pc[e] \in Busy}) <= 1

\* C8 (amended).  Single active epoch: at most one scheduler runs on a
\* partition state that is not stopped, and it is the current epoch's; a
\* stopped scheduler found inside an iteration is still in the iteration
\* that was in progress at stop(): it has not advanced since.
SingleActiveEpoch ==
    /\ Cardinality({e \in Epochs : pc[e] \in Running /\ ~is_stopped[e]}) <= 1
    /\ \A e \in Epochs :
        /\ (pc[e] \in Running /\ ~is_stopped[e]) => e = epoch
        /\ (pc[e] \in Busy /\ is_stopped[e]) => adv_after_stop[e] = 0

\* C8 witness: the outgoing scheduler and the new epoch's scheduler are both
\* inside a loop iteration.
SingleActiveEpochWitness ==
    \E e1, e2 \in Epochs :
        /\ is_stopped[e1] /\ pc[e1] \in Busy
        /\ ~is_stopped[e2] /\ pc[e2] \in Busy

\* C9.  A failed prefetch is never presented as a successful one: a slot
\* whose fetch failed in the scheduler is not below download_index, the step
\* that fails leaves download_index where it is, and every real slot below
\* download_index has its shard and, with the side-asset roots configured,
\* its side asset locally.
FailedPrefetchNotPassed ==
    /\ [](\A e \in Epochs :
            /\ \A k \in failed[e] : k > download_index[e]
            /\ \A k \in RealBelow(e) :
                 /\ shard_states[find_sample(sample_ids[k])] = "present"
                 /\ extra => asset_local[sample_ids[k]])
    /\ [][\A e \in Epochs :
            pc'[e] = "crashed" => download_index'[e] = download_index[e]]_vars

\* C9 witness: the scheduler passed slot 1, then a fetch for slot 2 failed.
FailedPrefetchNotPassedWitness ==
    \E e \in Epochs :
        /\ pc[e] = "crashed"
        /\ download_index[e] = 1
        /\ failed[e] = {2}

\* C10 (as claimed).  A fetch failure does not end the scheduler: a scheduler
\* whose fetch failed is still running, and no scheduler has exited with
\* stop unset and slots left, which would leave the consumer waiting.
SchedulerSurvivesFailure ==
    \A e \in Epochs :
        /\ failed[e] # {} => pc[e] \in Running
        /\ ~(pc[e] \notin Running /\ pc[e] # "idle"
             /\ ~is_stopped[e] /\ download_index[e] < total)

\* C16.  Single-writer rule: a step of a _download_thread leaves sample_ids
\* (and with it total) and every stop flag unchanged, writes no field of
\* another epoch's partition state, and of its own state writes only
\* download_index (yield_index stays, until the state is dropped).  A step
\* that changes none of these fields has nothing to show.
SingleWriter ==
    [][\/ UNCHANGED <<download_index, yield_index, is_stopped, sample_ids>>
       \/ \A e \in Epochs :
            \/ /\ sample_ids' = sample_ids
               /\ is_stopped' = is_stopped
               /\ \A o \in Epochs \ {e} :
                    /\ download_index'[o] = download_index[o]
                    /\ yield_index'[o] = yield_index[o]
               /\ pc'[e] # "freed" => yield_index'[e] = yield_index[e]
            \/ ~download_thread(e)]_vars

\* C16 witness: the stopped scheduler of a superseded epoch has advanced its
\* own cursor after stop() while the new epoch's state is live.
SingleWriterWitness ==
    \E e \in Epochs :
        /\ e < epoch /\ is_stopped[e]
        /\ adv_after_stop[e] = 1 /\ download_index[e] >= 1
        /\ pc[epoch] \in Running

\* C17.  Prefetch-time strategy: with both side-asset roots configured every
\* real slot below download_index has its side asset local, and a retrieval
\* made by the iteration performs no side-asset transfer.
PrefetchedAssetsLocal ==
    /\ extra => \A e \in Epochs : \A k \in RealBelow(e) : asset_local[sample_ids[k]]
    /\ cmode = "iter" => cpc # "asset_fetch"

\* C17 witness: with the roots configured the consumer has been handed the
\* real slot 1, whose asset the scheduler had fetched.
PrefetchedAssetsLocalWitness ==
    \E e \in Epochs :
        /\ extra /\ sample_ids[1] # Sentinel
        /\ yield_index[e] >= 1
        /\ asset_local[sample_ids[1]]
        /\ cpc = "loop"

\* The epoch is over: the scheduler has exited with download_index = total
\* and the consumer has reached yield_index = total.
EpochDone ==
    /\ epoch = 1
    /\ pc[1] = "done"
    /\ download_index[1] = total
    /\ yield_index[1] = total

\* C18 as stated.  For every predownload setting, None or any w >= 0, the
\* undisturbed epoch eventually ends under fair scheduling.
SchedulerTerminates == <>EpochDone

\* C18.  Scheduler termination: for predownload None or any w >= 1, with stop
\* never set, every fetch succeeding and fair scheduling, the scheduler
\* eventually exits with download_index = total and the consumer eventually
\* reaches yield_index = total.
SchedulerTerminatesPositiveWindow ==
    (predownload # <<0>>) => <>EpochDone

\* C18 witness: an epoch with a window of 1 and only real slots is over.
SchedulerTerminatesWitness ==
    /\ EpochDone
    /\ predownload = <<1>>
    /\ \A i \in Slots : sample_ids[i] # Sentinel

\* ------------------------------------------------------ MDSWriter claims
\* The writer object exists: its constructor returned.
Exists == wpc \in {"open", "finished"}

\* C14.  Schema validation at construction: a schema with an unregistered
\* encoding makes the constructor fail, so a writer that exists has only
\* registered encodings in column_encodings, and every datum encode_sample
\* produced was encoded with a registered encoding.
SchemaValidated ==
    /\ (\E i \in DOMAIN columns : ~is_mds_encoding(columns[i][2])) => ~Exists
    /\ Exists => \A i \in DOMAIN column_encodings : is_mds_encoding(column_encodings[i])
    /\ \A k \in DOMAIN new_samples : \A i \in DOMAIN new_samples[k].body :
          is_mds_encoding(new_samples[k].body[i].encoding)

\* C14 witness: the constructor raised TypeError on a schema whose second
\* column, in sorted order, has the unregistered encoding.
SchemaValidatedWitness ==
    /\ wpc = "TypeError"
    /\ Len(columns) = 2
    /\ Lookup(columns, "a") = "str"
    /\ Lookup(columns, "b") = "foo"

\* The metadata MDSWriter(cols, size_limit=limit) serializes.
ConfigOf(cols, limit) ==
    LET names == column_order(cols)
        encodings == [i \in DOMAIN names |-> Lookup(cols, names[i])]
        sizes == [i \in DOMAIN names |-> get_mds_encoded_size(encodings[i])]
    IN json_dumps(get_config(names, encodings, sizes, limit))

\* The column-to-encoding mapping, insertion order forgotten.
Mapping(cols) == {cols[i] : i \in DOMAIN cols}

\* Position of a name in ascending order.
Rank(name) == CHOOSE k \in DOMAIN ColumnNames : ColumnNames[k] = name

\* C15.  Metadata determinism: a writer's config_data is the one any writer
\* built with the same column-to-encoding mapping and the same size_limit
\* serializes, whatever the insertion order of the columns; column_names is
\* in ascending order, and column_encodings and column_sizes are aligned
\* with it index by index.
MetadataDeterministic ==
    Exists =>
        /\ \A q \in Schemas :
              Mapping(q) = Mapping(columns) => ConfigOf(q, size_limit) = config_data
        /\ \A i, j \in DOMAIN column_names :
              i < j => Rank(column_names[i]) < Rank(column_names[j])
        /\ DOMAIN column_encodings = DOMAIN column_names
        /\ DOMAIN column_sizes = DOMAIN column_names
        /\ \A i \in DOMAIN column_names :
              /\ column_encodings[i] = Lookup(columns, column_names[i])
              /\ column_sizes[i] = get_mds_encoded_size(column_encodings[i])

\* C15 witness: a writer exists whose columns were inserted as b, then a,
\* with different encodings.
MetadataDeterministicWitness ==
    /\ Exists
    /\ columns = <<<<"b", "uint32">>, <<"a", "str">>>>
    /\ column_names = <<"a", "b">>
    /\ column_encodings = <<"str", "uint32">>
    /\ column_sizes = << <<>>, <<4>> >>
    /\ TextLen(config_data) = 170 - 8 + JsonOpt(size_limit)

\* The last encode_sample call returned bytes.
Returned == encoded # <<>> /\ encoded[1].out.raised = ""

\* The variable-size columns of the schema, in ascending name order.
VariableColumns ==
    SelectSeq(sorted(columns),
              LAMBDA name : get_mds_encoded_size(Lookup(columns, name)) = <<>>)

\* C12.  encode_sample layout: the bytes returned for a sample are a size
\* table with one 4-byte unsigned length for each variable-size column
\* only, in ascending column-name order, followed by the encoded bytes of
\* all columns in ascending column-name order; their length is 4 * v plus
\* the sum of the encoded column lengths, v the number of variable-size
\* columns.
EncodeSampleLayout ==
    Returned =>
        LET sample == encoded[1].sample
            out == encoded[1].out
            names == sorted(columns)
        IN /\ out.head = [k \in DOMAIN VariableColumns |-> sample[VariableColumns[k]]]
           /\ out.body = [i \in DOMAIN names |->
                             mds_encode(Lookup(columns, names[i]), sample[names[i]])]
           /\ SampleLen(out) =
                 BigAdd(Big(4 * Len(VariableColumns)),
                        BigSum([i \in DOMAIN names |-> sample[names[i]]]))

\* C12 witness: the schema {a: fixed 4 bytes, b: variable}, inserted as b
\* then a, and a sample with 4 bytes for a and 2 bytes for b: 10 bytes, the
\* size 2, then a, then b.
EncodeSampleLayoutWitness ==
    /\ Returned
    /\ columns = <<<<"b", "str">>, <<"a", "uint32">>>>
    /\ encoded[1].sample = [a |-> Big(4), b |-> Big(2)]
    /\ encoded[1].out.head = <<Big(2)>>
    /\ SampleLen(encoded[1].out) = Big(10)

\* Every fixed-size column of an encoded sample has its declared length.
WellSized(s) ==
    \A i \in DOMAIN column_sizes :
        column_sizes[i] # <<>> => s.body[i].len = Big(column_sizes[i][1])

\* The value of some fixed-size column encodes to another length than the
\* declared one.
Mismatched(sample) ==
    \E i \in DOMAIN column_sizes :
        /\ column_sizes[i] # <<>>
        /\ mds_encode(column_encodings[i], sample[column_names[i]]).len
               # Big(column_sizes[i][1])

\* C13.  Fixed-size invariant: an encode_sample call on a sample with a
\* fixed-size column of the wrong encoded length raises the size-mismatch
\* error (KeyError) and returns no bytes, and no such sample is in the
\* buffer or in an emitted shard; every sample that was returned has the
\* declared number of bytes in each fixed-size column.
FixedSizeInvariant ==
    /\ encoded # <<>> =>
          LET sample == encoded[1].sample
              out == encoded[1].out
          IN /\ Mismatched(sample) <=> out.raised = "KeyError"
             /\ Mismatched(sample) => DOMAIN out = {"raised"}
             /\ ~Mismatched(sample) => WellSized(out)
    /\ \A k \in DOMAIN new_samples : WellSized(new_samples[k])
    /\ shard # <<>> =>
          \A k \in DOMAIN shard[1].sample_data : WellSized(shard[1].sample_data[k])

\* C13 witness: with one sample buffered, a second write gave a 2-byte
\* datum for the 4-byte column and raised; the buffer still holds one sample.
FixedSizeInvariantWitness ==
    /\ wpc = "open"
    /\ num_written = 2
    /\ Len(new_samples) = 1
    /\ \E i \in DOMAIN column_sizes :
          column_sizes[i] = <<4>> /\ encoded[1].sample[column_names[i]] = Big(2)
    /\ encoded[1].out.raised = "KeyError"

\* C20.  Size accounting: the length of the bytes encode_joint_shard
\* returned is extra_bytes_per_shard plus, for each sample, its length and
\* extra_bytes_per_sample, with extra_bytes_per_shard = 4 + 4 + the length
\* of the metadata and extra_bytes_per_sample = 4.
SizeAccounting ==
    shard # <<>> =>
        LET sh == shard[1]
        IN FileLen(sh) =
              BigAdd(Big(extra_bytes_per_shard(config_data)),
                     BigSum([k \in DOMAIN sh.sample_data |->
                                BigAdd(SampleLen(sh.sample_data[k]),
                                       Big(extra_bytes_per_sample))]))

\* C20 witness: a shard of two samples was emitted.
SizeAccountingWitness ==
    /\ shard # <<>>
    /\ shard[1].num_samples = 2
    /\ extra_bytes_per_shard(config_data) = 8 + TextLen(shard[1].config_data)

\* C11.  Offset table correctness: an emitted shard of n samples has n + 1
\* offsets, offsets[0] is 4 + 4 * (n + 1) + L, each offsets[k + 1] is
\* offsets[k] plus the length of sample k, and offsets[n] is the length of
\* the file.
OffsetTableCorrect ==
    shard # <<>> =>
        LET sh == shard[1]
            n == sh.num_samples
        IN /\ n = Len(sh.sample_data)
           /\ Len(sh.offsets) = n + 1
           /\ sh.offsets[1] = Big(4 + 4 * (n + 1) + TextLen(sh.config_data))
           /\ \A k \in 1..n :
                 sh.offsets[k + 1] = BigAdd(sh.offsets[k], SampleLen(sh.sample_data[k]))
           /\ sh.offsets[n + 1] = FileLen(sh)

\* C19.  32-bit offsets: in every shard the writer emits, with or without
\* a size limit, the stored offsets are non-decreasing and the last one is
\* the length of the file.
OffsetsNeverWrap ==
    shard # <<>> =>
        LET sh == shard[1]
        IN /\ \A k \in DOMAIN sh.offsets :
                 k > 1 => ~BigLess(sh.offsets[k], sh.offsets[k - 1])
           /\ sh.offsets[Len(sh.offsets)] = FileLen(sh)
====
